---- MODULE Spec2Model ----
(***************************************************************************)
(* orx-selfref-col: a self referential collection whose nodes live in a    *)
(* pinned (growth-stable) vector.  The model follows a doubly linked list  *)
(* (Prev = single, Next = single, Ends = array of 2) built on the engine,  *)
(* its memory reclaim policies and its node handles.                       *)
(*                                                                         *)
(* The crate is present in two revisions:                                  *)
(*   "v1"  SelfRefCol / SelfRefColMut / NodeIndex, the memory state lives  *)
(*         inside the reclaim policy (src/selfref_col.rs,                  *)
(*         src/selfref_col_mut.rs, src/memory_reclaim, src/variants),      *)
(*   "v2"  CoreCol / MemoryPolicy / MemoryReclaimer / NodeIdx / NodePtr    *)
(*         (src/core_col.rs, src/memory, src/references/node_idx.rs).      *)
(* The variable rev selects the revision a behaviour runs.                 *)
(*                                                                         *)
(* Addresses.  The pinned vector never moves a position, so the address of *)
(* the node at (0-based) position p of the source is the number p + 1      *)
(* here; 0 is the absent reference (None).                                 *)
(***************************************************************************)
EXTENDS Integers, Sequences, FiniteSets, TLC

\* ---------------------------------------------------------------- bounds
MaxNodes == 4
MaxItems == 4
MaxD == 2
MaxState == 3
MaxRefs == 3
MaxPtr == 2
MaxThreads == 2
UsizeBits == 4

\* ------------------------------------------------------------- constants
\* MemoryReclaimAlways = MemoryReclaimOnThreshold<32>
AlwaysD == 32

VARIABLES
    rev,        \* revision of the engine: "v1" or "v2"
    policy,     \* "Never" or "OnThreshold"
    D,          \* the const generic D of MemoryReclaimOnThreshold<D>
    nodes,      \* the pinned vector of nodes (CoreCol.nodes / SelfRefCol.pinned_vec)
    ends,       \* the ends of the collection: <<front, back>>
    len,        \* number of active nodes as counted by the collection
    state,      \* MemoryState.id of the collection
    idx,        \* node indices handed out: item -> [ptr, state]; ptr = 0 if none
    items,      \* number of items pushed so far; item k is the k-th pushed value
    last,       \* what the last operation did: [op, ran, moved]
    order,      \* history: the items of the list from front to back
    moves,      \* history: number of reclaim passes that moved a node
    born,       \* history: item -> value of moves when its index was taken
    references, \* a reference container on its own, with its last call
    readers     \* threads that read the collection through node indices

vars == <<rev, policy, D, nodes, ends, len, state, idx, items, last, order, moves, born, references, readers>>

\* the variables of the collection
colvars == <<rev, policy, D, nodes, ends, len, state, idx, items, last, order, moves, born, readers>>

None == 0

Max(S) == CHOOSE x \in S : \A y \in S : y <= x

Min(S) == CHOOSE x \in S : \A y \in S : x <= y

\* variant of shr that shifts by one bit more
shr_one_more(x, d) == IF d >= 31 THEN 0 ELSE x \div (2 ^ (d + 1))

\* usize >> d for the small values of the model
shr(x, d) == IF d >= 31 THEN 0 ELSE x \div (2 ^ d)

\* ----------------------------------------------------------------- nodes
new_free_node(data) == [data |-> data, prev |-> None, next |-> None]

is_active(node) == node.data # None

is_closed(node) == node.data = None

\* variant of node_close that keeps the references of the node
node_close_keeps_refs(node) == [node EXCEPT !.data = None]

\* Node::close: clears prev and next, takes the data out
node_close(node) == [data |-> None, prev |-> None, next |-> None]

\* a collection value: the three fields of CoreCol
Col(n, e, l) == [nodes |-> n, ends |-> e, len |-> l]

Cur == Col(nodes, ends, len)

\* --------------------------------------------------------------- CoreCol
push(col, data) ==
    [col EXCEPT !.len = @ + 1, !.nodes = Append(@, new_free_node(data))]

\* variant of close that leaves the count of active nodes as it is
close_keeps_len(col, ptr) ==
    [col EXCEPT !.nodes[ptr] = node_close(@)]

close(col, ptr) ==
    [col EXCEPT !.len = @ - 1, !.nodes[ptr] = node_close(@)]

\* variant of close_if_active that does not look at the node
close_if_active_unchecked(col, ptr) ==
    [col EXCEPT !.len = @ - 1, !.nodes[ptr] = node_close(@)]

close_if_active(col, ptr) ==
    IF is_active(col.nodes[ptr])
    THEN [col EXCEPT !.len = @ - 1, !.nodes[ptr] = node_close(@)]
    ELSE col

\* variant of move_node that copies the active node and leaves it in place
move_node_copies(col, closed_position, active_position) ==
    [col EXCEPT !.nodes[closed_position] = col.nodes[active_position]]

\* variant of move_node in which the moved node loses its next reference
move_node_drops_next(col, closed_position, active_position) ==
    [col EXCEPT !.nodes[closed_position] = [col.nodes[active_position] EXCEPT !.next = None],
                !.nodes[active_position] = col.nodes[closed_position]]

move_node(col, closed_position, active_position) ==
    [col EXCEPT !.nodes[closed_position] = col.nodes[active_position],
                !.nodes[active_position] = col.nodes[closed_position]]

\* variant of clear_core that keeps the ends
clear_core_keeps_ends(col) == Col(<<>>, col.ends, 0)

clear_core(col) == Col(<<>>, <<None, None>>, 0)

\* variant of truncate that keeps the whole storage
truncate_keeps_all(col, n) == col

truncate(col, n) ==
    [col EXCEPT !.nodes = IF n < Len(@) THEN SubSeq(@, 1, n) ELSE @]

contains_ptr(col, ptr) == ptr \in 1..Len(col.nodes)


\* -------------------------------------------- v2: the list's reclaimer
\* tests/doubly_linked_list.rs, swap(col, vacant, occupied)
swap(col, vacant, occupied) ==
    LET new_idx == vacant
        old_idx == occupied
        prev == col.nodes[occupied].prev
        next == col.nodes[occupied].next
        c1 == IF prev # None THEN [col EXCEPT !.nodes[prev].next = new_idx] ELSE col
        c2 == IF next # None THEN [c1 EXCEPT !.nodes[next].prev = new_idx] ELSE c1
        c3 == move_node(c2, vacant, occupied)
        c4 == IF old_idx = c3.ends[1] THEN [c3 EXCEPT !.ends[1] = new_idx] ELSE c3
        c5 == IF old_idx = c4.ends[2] THEN [c4 EXCEPT !.ends[2] = new_idx] ELSE c4
    IN c5

\* the loop of OnThresholdReclaimer::reclaim_nodes from position vacant on;
\* right_bound is exclusive
RECURSIVE reclaim_nodes_from(_, _, _, _)
reclaim_nodes_from(col, vacant, right_bound, any_swapped) ==
    IF vacant > Len(col.nodes)
    THEN [col |-> col, moved |-> any_swapped]
    ELSE IF is_closed(col.nodes[vacant])
         THEN LET cand == {o \in (vacant + 1)..(right_bound - 1) : is_active(col.nodes[o])}
              IN IF cand = {}
                 THEN reclaim_nodes_from(col, vacant + 1, right_bound, any_swapped)
                 ELSE reclaim_nodes_from(swap(col, vacant, Max(cand)), vacant + 1, Max(cand), TRUE)
         ELSE reclaim_nodes_from(col, vacant + 1, right_bound, any_swapped)

\* variant of reclaim_nodes that starts its scan one position late
reclaim_nodes_skips_first(col) == reclaim_nodes_from(col, 2, Len(col.nodes) + 1, FALSE)

reclaim_nodes(col) == reclaim_nodes_from(col, 1, Len(col.nodes) + 1, FALSE)

\* ---------------------------------------------------- v2: memory policies
\* variant of the threshold policy that reclaims also at the limit
on_threshold_reclaims_at_limit(col, d) ==
    LET num_active_nodes == col.len
        used == Len(col.nodes)
        allowed_vacant == shr(used, d)
        num_vacant == used - num_active_nodes
    IN IF num_vacant < allowed_vacant
       THEN [col |-> col, moved |-> FALSE, ran |-> FALSE]
       ELSE LET r == reclaim_nodes(col)
            IN [col |-> truncate(r.col, num_active_nodes), moved |-> r.moved, ran |-> TRUE]

\* MemoryReclaimOnThreshold<D, V, R>::reclaim_closed_nodes
on_threshold_reclaim_closed_nodes(col, d) ==
    LET num_active_nodes == col.len
        used == Len(col.nodes)
        allowed_vacant == shr(used, d)
        num_vacant == used - num_active_nodes
    IN IF num_vacant <= allowed_vacant
       THEN [col |-> col, moved |-> FALSE, ran |-> FALSE]
       ELSE LET r == reclaim_nodes(col)
            IN [col |-> truncate(r.col, num_active_nodes), moved |-> r.moved, ran |-> TRUE]

\* variant of the Never policy that reclaims once more than half is vacant
never_reclaims_on_half(col) == on_threshold_reclaim_closed_nodes(col, 1)

\* MemoryReclaimNever::reclaim_closed_nodes
never_reclaim_closed_nodes(col) == [col |-> col, moved |-> FALSE, ran |-> FALSE]

\* MemoryState::successor_state
successor_state(st) == st + 1

\* SelfRefCol (v2): the state advances when the policy reports moved nodes
update_state(st, state_changed) == IF state_changed THEN successor_state(st) ELSE st

\* SelfRefCol::close_and_reclaim (v2)
close_and_reclaim(col, st, ptr) ==
    LET c == close(col, ptr)
        r == IF policy = "Never"
             THEN never_reclaim_closed_nodes(c)
             ELSE on_threshold_reclaim_closed_nodes(c, D)
    IN [col |-> r.col, state |-> update_state(st, r.moved), ran |-> r.ran]

\* SelfRefCol::reclaim_closed_nodes (v2), the manual reclaim
reclaim_closed_nodes_manual(col, st) ==
    LET r == reclaim_nodes(col)
    IN [col |-> truncate(r.col, col.len), state |-> update_state(st, r.moved), ran |-> TRUE]

\* SelfRefCol::clear (v2)
clear_and_advance(col, st) == [col |-> clear_core(col), state |-> successor_state(st)]

\* --------------------------------------- v1: references and the reclaimer
\* NodeRefSingle::update_reference
update_reference(ref, prior_reference, new_reference) ==
    IF ref # None /\ ref = prior_reference THEN new_reference ELSE ref

\* NodeRefsArray::update_reference
update_reference_array(refs, prior_reference, new_reference) ==
    [i \in DOMAIN refs |-> update_reference(refs[i], prior_reference, new_reference)]

\* variant of lazy_swap that does not redirect the next of the previous node
lazy_swap_stale_prev(col, vacant, occupied) ==
    LET occ == col.nodes[occupied]
        c1 == [col EXCEPT !.nodes[vacant].data = occ.data,
                          !.nodes[occupied].data = None]
        c2 == [c1 EXCEPT !.nodes[vacant].next = occ.next,
                         !.nodes[occupied].next = None]
        next == c2.nodes[vacant].next
        c3 == IF next # None
              THEN [c2 EXCEPT !.nodes[next].prev = update_reference(@, occupied, vacant)]
              ELSE c2
        c4 == [c3 EXCEPT !.nodes[vacant].prev = c3.nodes[occupied].prev,
                         !.nodes[occupied].prev = None]
    IN c4

\* memory_reclaim/lazy_bidirectional.rs, swap(vacant, occupied)
lazy_swap(col, vacant, occupied) ==
    LET occ == col.nodes[occupied]
        c1 == [col EXCEPT !.nodes[vacant].data = occ.data,
                          !.nodes[occupied].data = None]
        c2 == [c1 EXCEPT !.nodes[vacant].next = occ.next,
                         !.nodes[occupied].next = None]
        next == c2.nodes[vacant].next
        c3 == IF next # None
              THEN [c2 EXCEPT !.nodes[next].prev = update_reference(@, occupied, vacant)]
              ELSE c2
        c4 == [c3 EXCEPT !.nodes[vacant].prev = c3.nodes[occupied].prev,
                         !.nodes[occupied].prev = None]
        prev == c4.nodes[vacant].prev
        c5 == IF prev # None
              THEN [c4 EXCEPT !.nodes[prev].next = update_reference(@, occupied, vacant)]
              ELSE c4
    IN c5

\* the backward iterator of reorganize_nodes: the first position at or below
\* b that is active (found), or the vacant position itself (converged);
\* 0 when the iterator is exhausted
RECURSIVE backward_scan(_, _, _)
backward_scan(col, vacant, b) ==
    IF b < 1 THEN [found |-> FALSE, converged |-> FALSE, at |-> 0]
    ELSE IF is_active(col.nodes[b]) THEN [found |-> TRUE, converged |-> FALSE, at |-> b]
    ELSE IF b = vacant THEN [found |-> FALSE, converged |-> TRUE, at |-> b]
    ELSE backward_scan(col, vacant, b - 1)

\* the forward loop of reorganize_nodes: f is the forward position, b the
\* next position of the backward iterator, occupied_ptr the last moved node
RECURSIVE reorganize_from(_, _, _, _)
reorganize_from(col, f, b, occupied_ptr) ==
    IF f > Len(col.nodes) THEN col
    ELSE IF f = occupied_ptr THEN col
    ELSE IF is_closed(col.nodes[f])
         THEN LET s == backward_scan(col, f, b)
              IN IF s.found
                 THEN LET c1 == lazy_swap(col, f, s.at)
                          c2 == [c1 EXCEPT !.ends = update_reference_array(@, s.at, f)]
                      IN reorganize_from(c2, f + 1, s.at - 1, s.at)
                 ELSE IF s.converged THEN col
                 ELSE reorganize_from(col, f + 1, 0, occupied_ptr)
         ELSE reorganize_from(col, f + 1, b, occupied_ptr)

reorganize_nodes(col) ==
    IF Len(col.nodes) = 0 THEN col
    ELSE reorganize_from(col, 1, Len(col.nodes), Len(col.nodes) + 1)

\* MemoryReclaimPolicy::successor_state of the collection's policy (v1):
\* MemoryReclaimNever has no state, MemoryReclaimOnThreshold advances it
policy_successor_state(st) == IF policy = "Never" THEN st ELSE successor_state(st)

\* variant of memory_reclaimed that keeps the memory state
memory_reclaimed_keeps_state(st) == st

\* SelfRefCol::memory_reclaimed (v1)
memory_reclaimed(st) == policy_successor_state(st)

\* memory_reclaim/lazy_bidirectional.rs, reclaim_closed_nodes
reclaim_closed_nodes(col, st) ==
    IF Len(col.nodes) # 0
    THEN [col |-> truncate(reorganize_nodes(col), col.len),
          state |-> memory_reclaimed(st), ran |-> TRUE]
    ELSE [col |-> col, state |-> st, ran |-> FALSE]

\* variant of need_to_reclaim_vacant_nodes that fires at the threshold itself
need_to_reclaim_at_threshold(col, d) ==
    LET used == Len(col.nodes)
        allowed_vacant == shr(used, d)
        num_vacant == used - col.len
    IN num_vacant >= allowed_vacant

\* SelfRefColMut::need_to_reclaim_vacant_nodes::<D>
need_to_reclaim_vacant_nodes(col, d) ==
    LET used == Len(col.nodes)
        allowed_vacant == shr(used, d)
        num_vacant == used - col.len
    IN num_vacant > allowed_vacant

\* MemoryReclaimOnThreshold<D>::reclaim_closed_nodes (v1, bidirectional)
threshold_reclaim_closed_nodes(col, st, d) ==
    IF need_to_reclaim_vacant_nodes(col, d)
    THEN reclaim_closed_nodes(col, st)
    ELSE [col |-> col, state |-> st, ran |-> FALSE]

\* the node part of SelfRefColMut::close_node_take_data (v1)
close_node(col, ptr) ==
    [col EXCEPT !.len = @ - 1,
                !.nodes[ptr] = [data |-> None, prev |-> None, next |-> None]]

\* variant of close_node_take_data that reclaims whatever the policy is
close_node_take_data_any_policy(col, st, ptr) ==
    threshold_reclaim_closed_nodes(close_node(col, ptr), st, 1)

\* SelfRefColMut::close_node_take_data (v1)
close_node_take_data(col, st, ptr) ==
    LET c == close_node(col, ptr)
    IN IF policy = "Never"
       THEN [col |-> c, state |-> st, ran |-> FALSE]
       ELSE threshold_reclaim_closed_nodes(c, st, D)

\* variant of the manual reclaim that asks the policy of the collection
reclaim_closed_nodes_by_policy(col, st) ==
    IF policy = "Never"
    THEN [col |-> col, state |-> st, ran |-> FALSE]
    ELSE threshold_reclaim_closed_nodes(col, st, D)

\* SelfRefCol::reclaim_closed_nodes (v1), the manual reclaim
reclaim_closed_nodes_always(col, st) == threshold_reclaim_closed_nodes(col, st, AlwaysD)

\* SelfRefCol::clear (v1)
clear(col, st) == [col |-> Col(<<>>, <<None, None>>, 0), state |-> st]


\* ------------------------------------------------------------- handles
\* MemoryReclaimPolicy::is_same_collection_as (v1): the key of the Never
\* policy is zero sized, the key of the threshold policy is its state
is_same_collection_as(key, col_state) ==
    IF policy = "Never" THEN TRUE ELSE key = col_state

\* variant of is_valid_for_collection that does not look at the node
is_valid_for_collection_any_node(h, col, st) ==
    /\ is_same_collection_as(h.state, st)
    /\ contains_ptr(col, h.ptr)

\* NodeIndex::is_valid_for_collection (v1)
is_valid_for_collection(h, col, st) ==
    /\ is_same_collection_as(h.state, st)
    /\ contains_ptr(col, h.ptr)
    /\ is_active(col.nodes[h.ptr])

\* variant of is_valid_for that does not look at the node
is_valid_for_any_node(h, col, st) ==
    /\ h.state = st
    /\ contains_ptr(col, h.ptr)

\* NodeIdx::is_valid_for (v2)
is_valid_for(h, col, st) ==
    /\ h.state = st
    /\ contains_ptr(col, h.ptr)
    /\ is_active(col.nodes[h.ptr])

\* NodePtr::is_valid_for (v2)
ptr_is_valid_for(ptr, col) ==
    /\ contains_ptr(col, ptr)
    /\ is_active(col.nodes[ptr])

\* NodeIdx::new / NodeIndex::new
NodeIdx_new(st, ptr) == [ptr |-> ptr, state |-> st]

\* variant of invalidity_reason_for_collection that looks at the storage first
invalidity_reason_checks_storage_first(h, col, st) ==
    IF ~contains_ptr(col, h.ptr) THEN "WrongCollection"
    ELSE IF ~is_same_collection_as(h.state, st) THEN "ReorganizedCollection"
    ELSE IF ~is_active(col.nodes[h.ptr]) THEN "RemovedNode"
    ELSE "None"

\* NodeIndex::invalidity_reason_for_collection (v1)
invalidity_reason_for_collection(h, col, st) ==
    IF ~is_same_collection_as(h.state, st) THEN "ReorganizedCollection"
    ELSE IF ~contains_ptr(col, h.ptr) THEN "WrongCollection"
    ELSE IF ~is_active(col.nodes[h.ptr]) THEN "RemovedNode"
    ELSE "None"

\* the typed reason of an invalid NodeIdx (v2), the conditions of
\* is_valid_for in their order
node_idx_error(h, col, st) ==
    IF h.state # st THEN "ReorganizedCollection"
    ELSE IF ~contains_ptr(col, h.ptr) THEN "WrongCollection"
    ELSE IF ~is_active(col.nodes[h.ptr]) THEN "RemovedNode"
    ELSE "None"

\* an optional node reference: Some(address) or None
Some(ptr) == [some |-> TRUE, ptr |-> ptr]

NoRef == [some |-> FALSE, ptr |-> None]

\* SelfRefColMut::get_node_ref (v1)
get_node_ref(h, col, st) ==
    IF is_valid_for_collection(h, col, st) THEN Some(h.ptr) ELSE NoRef

\* NodeIdx::get_ptr (v2)
get_ptr(h, collection_state) ==
    IF h.state = collection_state THEN Some(h.ptr) ELSE NoRef

\* SelfRefCol::node_from_idx (v2), as tests/singly_linked_list.rs uses it:
\* the index of a popped node still yields its (closed) node while the
\* memory state is the same
node_from_idx(h, col, st) == get_ptr(h, st)

\* the checked dereference of the running revision
Deref(h, col, st) ==
    IF rev = "v1" THEN get_node_ref(h, col, st) ELSE node_from_idx(h, col, st)

\* validity and reason of index h for collection col in state st, by the
\* running revision
ValidIn(h, col, st) ==
    IF rev = "v1" THEN is_valid_for_collection(h, col, st)
    ELSE is_valid_for(h, col, st)

ReasonIn(h, col, st) ==
    IF rev = "v1" THEN invalidity_reason_for_collection(h, col, st)
    ELSE node_idx_error(h, col, st)

\* the validity check of the running revision
IsValid(h) ==
    IF rev = "v1" THEN is_valid_for_collection(h, Cur, state)
    ELSE is_valid_for(h, Cur, state)

\* ------------------------------------- the doubly linked list on the engine
\* tests/doubly_linked_list.rs; the same wiring is done in v1 with
\* set_next_of / set_prev_of / set_ends of SelfRefColMut
RECURSIVE walk_next(_, _, _)
walk_next(col, current, jumps) ==
    IF jumps = 0 THEN current ELSE walk_next(col, col.nodes[current].next, jumps - 1)

RECURSIVE walk_prev(_, _, _)
walk_prev(col, current, jumps) ==
    IF jumps = 0 THEN current ELSE walk_prev(col, col.nodes[current].prev, jumps - 1)

\* get_at(col, at), at is 0-based as in the source
get_at(col, at) ==
    LET half_len == col.len \div 2
    IN IF at < half_len THEN walk_next(col, col.ends[1], at)
       ELSE IF at < col.len THEN walk_prev(col, col.ends[2], col.len - at - 1)
       ELSE None

\* push_first: the new node becomes front and back
push_first(col, value) ==
    LET c == push(col, value)
        ptr == Len(c.nodes)
    IN [c EXCEPT !.ends = <<ptr, ptr>>]

push_front(col, value) ==
    LET c == push(col, value)
        ptr == Len(c.nodes)
        old_front == c.ends[1]
    IN [c EXCEPT !.nodes[ptr].next = old_front,
                 !.nodes[old_front].prev = ptr,
                 !.ends[1] = ptr]

push_back(col, value) ==
    LET c == push(col, value)
        ptr == Len(c.nodes)
        old_back == c.ends[2]
    IN [c EXCEPT !.nodes[ptr].prev = old_back,
                 !.nodes[old_back].next = ptr,
                 !.ends[2] = ptr]

\* the unlinking part of pop_front, before close_and_reclaim(front_idx)
pop_front_unlink(col) ==
    LET front_idx == col.ends[1]
        new_front == col.nodes[front_idx].next
    IN IF new_front # None
       THEN [col EXCEPT !.nodes[new_front].prev = None, !.ends[1] = new_front]
       ELSE [col EXCEPT !.ends = <<None, None>>]

\* the unlinking part of pop_back, before close_and_reclaim(back_idx)
pop_back_unlink(col) ==
    LET back_idx == col.ends[2]
        new_back == col.nodes[back_idx].prev
    IN IF new_back # None
       THEN [col EXCEPT !.nodes[new_back].next = None, !.ends[2] = new_back]
       ELSE [col EXCEPT !.ends = <<None, None>>]

\* the unlinking part of remove_at for a node that is neither front nor back
remove_at_unlink(col, node_idx) ==
    LET prev == col.nodes[node_idx].prev
        next == col.nodes[node_idx].next
        c1 == IF prev # None THEN [col EXCEPT !.nodes[prev].next = next]
              ELSE [col EXCEPT !.ends[1] = next]
        c2 == IF next # None THEN [c1 EXCEPT !.nodes[next].prev = prev]
              ELSE [c1 EXCEPT !.ends[2] = prev]
    IN c2

\* remove_at(col, at): which node is closed and how it is unlinked
remove_at_target(col, at) ==
    IF at = 0 THEN col.ends[1]
    ELSE IF at = col.len - 1 THEN col.ends[2]
    ELSE get_at(col, at)

remove_at_unlinked(col, at) ==
    IF at = 0 THEN pop_front_unlink(col)
    ELSE IF at = col.len - 1 THEN pop_back_unlink(col)
    ELSE remove_at_unlink(col, get_at(col, at))

\* forward(col): the items from front to back
RECURSIVE forward_from(_, _, _)
forward_from(col, current, fuel) ==
    IF current = None \/ fuel = 0 THEN <<>>
    ELSE <<col.nodes[current].data>> \o forward_from(col, col.nodes[current].next, fuel - 1)

forward(col) ==
    IF col.len = 0 THEN <<>> ELSE forward_from(col, col.ends[1], Len(col.nodes) + 1)

\* ------------------------------------------------- engine of the revision
\* close the node at ptr and let the policy reclaim
CloseAndReclaim(col, st, ptr) ==
    IF rev = "v1" THEN close_node_take_data(col, st, ptr)
    ELSE close_and_reclaim(col, st, ptr)

\* did the pass from collection a to collection b move an active node
NodesMoved(a, b) ==
    \E p \in 1..Len(a.nodes) :
        /\ is_active(a.nodes[p])
        /\ \/ p > Len(b.nodes)
           \/ b.nodes[p].data # a.nodes[p].data

Install(col, st) ==
    /\ nodes' = col.nodes
    /\ ends' = col.ends
    /\ len' = col.len
    /\ state' = st

\* ------------------------------------------------ reference containers
\* RefsArrayLeftMost<N>: array is [Option<NodePtr>; N], slot i of the source
\* is array[i + 1] here; len is the number of references.  Positions that the
\* operations take and return are those of the source (from 0).
Container(array, n) == [array |-> array, len |-> n]

\* Option<usize>::None
NoPosition == 0 - 1

\* usize::MAX of the model
UsizeMax == 2 ^ UsizeBits - 1

\* a call that returned
Ok(c, ret) == [c |-> c, ret |-> ret, panics |-> FALSE]

\* a call that panicked
Panic(c) == [c |-> c, ret |-> NoPosition, panics |-> TRUE]

\* Refs::empty
refs_empty == Container([i \in 1..MaxRefs |-> None], 0)

\* Refs::clear: the first len slots are taken
refs_clear(c) ==
    Container([i \in 1..MaxRefs |-> IF i <= c.len THEN None ELSE c.array[i]], 0)

\* for i in (ref_idx + 1)..len { array[i - 1] = array[i].take() }
RECURSIVE take_left(_, _, _)
take_left(array, i, n) ==
    IF i >= n THEN array
    ELSE take_left([array EXCEPT ![i] = array[i + 1], ![i + 1] = None], i + 1, n)

\* Refs::remove_at; len -= 1 on len = 0 panics in a debug build and wraps in
\* a release build
refs_remove_at(c, ref_idx, debug) ==
    IF ref_idx >= MaxRefs THEN Panic(c)
    ELSE LET a1 == [c.array EXCEPT ![ref_idx + 1] = None]
             a2 == take_left(a1, ref_idx + 1, c.len)
         IN IF c.len = 0
            THEN IF debug THEN Panic(Container(a2, c.len))
                 ELSE Ok(Container(a2, UsizeMax), NoPosition)
            ELSE Ok(Container(a2, c.len - 1), NoPosition)

\* array.iter().enumerate().find(..): the first slot of the whole array that
\* holds ptr
find_ptr(c, ptr) ==
    LET hits == {i \in 0..(MaxRefs - 1) : c.array[i + 1] = ptr}
    IN IF hits = {} THEN NoPosition ELSE Min(hits)

\* variant of refs_remove that removes the last occurrence
refs_remove_last(c, ptr, debug) ==
    LET hits == {i \in 0..(MaxRefs - 1) : c.array[i + 1] = ptr}
    IN IF hits = {} THEN Ok(c, NoPosition)
       ELSE LET r == refs_remove_at(c, Max(hits), debug)
            IN IF r.panics THEN r ELSE Ok(r.c, Max(hits))

\* Refs::remove
refs_remove(c, ptr, debug) ==
    LET x == find_ptr(c, ptr)
    IN IF x = NoPosition THEN Ok(c, NoPosition)
       ELSE LET r == refs_remove_at(c, x, debug)
            IN IF r.panics THEN r ELSE Ok(r.c, x)

\* self.iter().position(|x| x == ptr): the iterator runs over array[..len]
\* and ends at the first empty slot
iter_position(c, ptr) ==
    LET hits == {i \in 0..(c.len - 1) :
                    /\ c.array[i + 1] = ptr
                    /\ \A j \in 0..(i - 1) : c.array[j + 1] # None}
    IN IF hits = {} THEN NoPosition ELSE Min(hits)

\* variant of assert_has_room_for that never fails
assert_nothing(c, p) == TRUE

\* assert_has_room_for::<P>
assert_has_room_for(c, p) == c.len + p <= MaxRefs

\* RefsArrayLeftMost::push
refs_push(c, node_ptr) ==
    IF ~assert_has_room_for(c, 1) THEN Panic(c)
    ELSE Ok(Container([c.array EXCEPT ![c.len + 1] = node_ptr], c.len + 1), NoPosition)

\* for q in (position..len).rev() { array[q + 1] = array[q].clone() }
RECURSIVE shift_right(_, _, _)
shift_right(array, q, position) ==
    IF q < position THEN array
    ELSE shift_right([array EXCEPT ![q + 2] = array[q + 1]], q - 1, position)

\* the index out of bounds of insert: array[len] in the first round of the
\* loop, or array[position]; it comes before any write
insert_out_of_bounds(c, position) ==
    \/ position < c.len /\ c.len >= MaxRefs
    \/ position >= MaxRefs

\* RefsArrayLeftMost::insert
refs_insert(c, position, node_ptr) ==
    IF insert_out_of_bounds(c, position) THEN Panic(c)
    ELSE Ok(Container([shift_right(c.array, c.len - 1, position) EXCEPT ![position + 1] = node_ptr],
                      c.len + 1), NoPosition)

\* RefsArrayLeftMost::push_before
refs_push_before(c, pivot_ptr, node_ptr) ==
    IF ~assert_has_room_for(c, 1) THEN Panic(c)
    ELSE LET position == iter_position(c, pivot_ptr)
         IN IF position # NoPosition
            THEN [refs_insert(c, position, node_ptr) EXCEPT !.ret = position]
            ELSE Ok(c, position)

\* RefsArrayLeftMost::push_after
refs_push_after(c, pivot_ptr, node_ptr) ==
    IF ~assert_has_room_for(c, 1) THEN Panic(c)
    ELSE LET position == iter_position(c, pivot_ptr)
         IN IF position # NoPosition
            THEN [refs_insert(c, position + 1, node_ptr) EXCEPT !.ret = position]
            ELSE Ok(c, position)

\* RefsArrayLeftMost::replace_with
refs_replace_with(c, old_node_ptr, new_node_ptr) ==
    LET position == iter_position(c, old_node_ptr)
    IN IF position # NoPosition
       THEN Ok(Container([c.array EXCEPT ![position + 1] = new_node_ptr], c.len), position)
       ELSE Ok(c, position)

\* variant of update_reference_vec that replaces the first occurrence only
update_reference_vec_first(refs_vec, prior_reference, new_reference) ==
    [i \in 1..Len(refs_vec) |->
        IF refs_vec[i] = prior_reference /\ \A j \in 1..(i - 1) : refs_vec[j] # prior_reference
        THEN new_reference ELSE refs_vec[i]]

\* NodeRefsVec::update_reference
update_reference_vec(refs_vec, prior_reference, new_reference) ==
    [i \in 1..Len(refs_vec) |->
        IF refs_vec[i] = prior_reference THEN new_reference ELSE refs_vec[i]]

\* the container of the model with its last call
Refs(kind, c, op, a, b, ret, panics) ==
    [kind |-> kind, array |-> c.array, len |-> c.len,
     op |-> op, a |-> a, b |-> b, ret |-> ret, panics |-> panics]

\* the container while the collection is followed
RefsIdle == Refs("left_most", refs_empty, "empty", None, None, NoPosition, FALSE)

\* the containers a behaviour of the containers starts from: an empty
\* RefsArrayLeftMost, or a NodeRefSingle, NodeRefsArray or NodeRefsVec with
\* any content
RefsInputs ==
    {RefsIdle}
    \cup {Refs("single", Container(<<x>>, 1), "new", None, None, NoPosition, FALSE) :
            x \in 0..MaxPtr}
    \cup {Refs("array", Container(f, MaxRefs), "new", None, None, NoPosition, FALSE) :
            f \in [1..MaxRefs -> 0..MaxPtr]}
    \cup UNION {{Refs("vec", Container(f, n), "new", None, None, NoPosition, FALSE) :
                    f \in [1..n -> 1..MaxPtr]} : n \in 0..MaxRefs}

\* ------------------------------------------------------------------ init
ColInit ==
    /\ rev \in {"v1", "v2"}
    /\ \/ policy = "Never" /\ D = 0
       \/ policy = "OnThreshold" /\ D \in 0..MaxD
    /\ nodes = <<>>
    /\ ends = <<None, None>>
    /\ len = 0
    /\ state = 0
    /\ idx = [i \in 1..MaxItems |-> [ptr |-> None, state |-> 0]]
    /\ items = 0
    /\ last = [op |-> "new", ran |-> FALSE, moved |-> FALSE]
    /\ order = <<>>
    /\ moves = 0
    /\ born = [i \in 1..MaxItems |-> 0]

\* a thread that has not been spawned
IdleReader == [pc |-> "idle", item |-> 0, valid |-> FALSE, value |-> None]

Init ==
    /\ ColInit
    /\ references = RefsIdle
    /\ readers = [t \in 1..MaxThreads |-> IdleReader]


\* ----------------------------------------------------------------- actions
\* s without its k-th element
RemoveNth(s, k) == [j \in 1..(Len(s) - 1) |-> IF j < k THEN s[j] ELSE s[j + 1]]

\* s without the element v
RemoveItem(s, v) ==
    IF \E k \in 1..Len(s) : s[k] = v
    THEN RemoveNth(s, CHOOSE k \in 1..Len(s) : s[k] = v)
    ELSE s

PushFirst ==
    /\ len = 0
    /\ Len(nodes) < MaxNodes
    /\ items < MaxItems
    /\ LET c == push_first(Cur, items + 1)
       IN /\ Install(c, state)
          /\ idx' = [idx EXCEPT ![items + 1] = NodeIdx_new(state, Len(c.nodes))]
    /\ items' = items + 1
    /\ last' = [op |-> "push", ran |-> FALSE, moved |-> FALSE]
    /\ order' = <<items + 1>>
    /\ born' = [born EXCEPT ![items + 1] = moves]
    /\ UNCHANGED <<readers, references, rev, policy, D, moves>>

PushFront ==
    /\ ends[1] # None
    /\ Len(nodes) < MaxNodes
    /\ items < MaxItems
    /\ Install(push_front(Cur, items + 1), state)
    /\ items' = items + 1
    /\ last' = [op |-> "push", ran |-> FALSE, moved |-> FALSE]
    /\ order' = <<items + 1>> \o order
    /\ UNCHANGED <<readers, references, rev, policy, D, idx, moves, born>>

PushBack ==
    /\ ends[2] # None
    /\ Len(nodes) < MaxNodes
    /\ items < MaxItems
    /\ LET c == push_back(Cur, items + 1)
       IN /\ Install(c, state)
          /\ idx' = [idx EXCEPT ![items + 1] = NodeIdx_new(state, Len(c.nodes))]
    /\ items' = items + 1
    /\ last' = [op |-> "push", ran |-> FALSE, moved |-> FALSE]
    /\ order' = Append(order, items + 1)
    /\ born' = [born EXCEPT ![items + 1] = moves]
    /\ UNCHANGED <<readers, references, rev, policy, D, moves>>

\* the closing operations: unlink, close, reclaim
Closing(unlinked, ptr) ==
    LET r == CloseAndReclaim(unlinked, state, ptr)
        moved == NodesMoved(close(unlinked, ptr), r.col)
    IN /\ Install(r.col, r.state)
       /\ last' = [op |-> "close", ran |-> r.ran, moved |-> moved]
       /\ moves' = IF moved THEN moves + 1 ELSE moves
       /\ UNCHANGED <<readers, references, rev, policy, D, idx, items, born>>

PopFront ==
    /\ ends[1] # None
    /\ Closing(pop_front_unlink(Cur), ends[1])
    /\ order' = Tail(order)

PopBack ==
    /\ ends[2] # None
    /\ Closing(pop_back_unlink(Cur), ends[2])
    /\ order' = SubSeq(order, 1, Len(order) - 1)

RemoveAt(at) ==
    /\ at < len
    /\ Closing(remove_at_unlinked(Cur, at), remove_at_target(Cur, at))
    /\ order' = RemoveNth(order, at + 1)

\* CoreCol::close_if_active on the node at position p, which the caller has
\* unlinked when it is active; no reclaim follows
CloseIfActive(p) ==
    /\ rev = "v2"
    /\ p \in 1..Len(nodes)
    /\ LET u == IF is_active(nodes[p]) THEN remove_at_unlink(Cur, p) ELSE Cur
       IN Install(close_if_active(u, p), state)
    /\ last' = [op |-> IF is_active(nodes[p]) THEN "close_if_active" ELSE "close_if_closed",
                ran |-> FALSE, moved |-> FALSE]
    /\ order' = RemoveItem(order, nodes[p].data)
    /\ UNCHANGED <<readers, references, rev, policy, D, idx, items, moves, born>>

\* the manual reclaim
ReclaimClosedNodes ==
    LET r == IF rev = "v1" THEN reclaim_closed_nodes_always(Cur, state)
             ELSE reclaim_closed_nodes_manual(Cur, state)
        moved == NodesMoved(Cur, r.col)
    IN /\ Len(nodes) > len
       /\ Install(r.col, r.state)
       /\ last' = [op |-> "reclaim", ran |-> r.ran, moved |-> moved]
       /\ moves' = IF moved THEN moves + 1 ELSE moves
       /\ UNCHANGED <<readers, references, rev, policy, D, idx, items, order, born>>

\* clear(); on a storage that is already empty it is followed only right
\* after a clear()
Clear ==
    LET r == IF rev = "v1" THEN clear(Cur, state) ELSE clear_and_advance(Cur, state)
    IN /\ Len(nodes) > 0 \/ last.op = "clear"
       /\ rev = "v2" => state < MaxState
       /\ Install(r.col, r.state)
       /\ last' = [op |-> "clear", ran |-> FALSE, moved |-> FALSE]
       /\ order' = <<>>
       /\ UNCHANGED <<readers, references, rev, policy, D, idx, items, moves, born>>

\* a node index is taken for the active node at position p; the model
\* keeps one index per item
TakeIdx(p) ==
    /\ p \in 1..Len(nodes)
    /\ is_active(nodes[p])
    /\ idx[nodes[p].data].ptr = None
    /\ idx' = [idx EXCEPT ![nodes[p].data] = NodeIdx_new(state, p)]
    /\ born' = [born EXCEPT ![nodes[p].data] = moves]
    /\ last' = [op |-> "index", ran |-> FALSE, moved |-> FALSE]
    /\ UNCHANGED <<readers, references, rev, policy, D, nodes, ends, len, state, items, order, moves>>

Next ==
    \/ PushFirst
    \/ PushFront
    \/ PushBack
    \/ PopFront
    \/ PopBack
    \/ \E at \in 0..(MaxNodes - 1) : RemoveAt(at)
    \/ \E p \in 1..MaxNodes : CloseIfActive(p)
    \/ ReclaimClosedNodes
    \/ Clear
    \/ \E p \in 1..MaxNodes : TakeIdx(p)

Spec == Init /\ [][Next]_vars

\* ------------------------------------------------------------ properties
TypeOK ==
    /\ len \in 0..MaxNodes
    /\ Len(nodes) <= MaxNodes
    /\ \A p \in 1..Len(nodes) : nodes[p].data \in 0..MaxItems

\* positions of the storage whose node is active
ActivePositions == {p \in 1..Len(nodes) : is_active(nodes[p])}

\* items held by the active nodes of a storage
ActiveItems(ns) == {ns[p].data : p \in {q \in 1..Len(ns) : is_active(ns[q])}}

\* addresses stored in the ends and in prev / next of the active nodes
StoredAddresses ==
    {ends[1], ends[2]}
        \cup {nodes[p].prev : p \in ActivePositions}
        \cup {nodes[p].next : p \in ActivePositions}

\* C1: every address stored in the ends or in prev / next of an active node
\* is the address of an active node of the same storage, whatever sequence of
\* pushes, closes of unlinked nodes and reclaim passes has run.
C1_NoDanglingAddress ==
    \A r \in StoredAddresses : r # None => r \in ActivePositions

\* a reclaim pass has moved a node of a list that still has linked nodes
C1_Witness ==
    /\ last.ran /\ last.moved
    /\ len >= 2
    /\ \E p \in ActivePositions : nodes[p].prev # None

\* C2: the counter of active nodes equals the number of storage slots that
\* hold a payload, after push, close, close_if_active, move_node and reclaim.
C2_LenCountsActive == len = Cardinality(ActivePositions)

\* nodes were closed, a pass moved a node, and closed and active nodes coexist
C2_Witness ==
    /\ moves >= 1
    /\ last.op = "close_if_active"
    /\ len >= 1
    /\ Len(nodes) > len

\* C3: whenever the validity check of a node index returns true, the index
\* accesses the node that holds the element it was created for; after any
\* interleaving of push, close, automatic reclaim, manual reclaim and clear,
\* under either policy.
C3_ValidIndexAccessesItsElement ==
    \A i \in 1..MaxItems :
        (idx[i].ptr # None /\ IsValid(idx[i])) => nodes[idx[i].ptr].data = i

\* the indices that have been taken
Taken == {i \in 1..MaxItems : idx[i].ptr # None}

\* C4: under a threshold policy, once a reclaim pass has moved at least one
\* node, every node index created before that pass is reported invalid.
C4_MovedInvalidatesEarlierIndices ==
    policy = "OnThreshold" =>
        \A i \in Taken : born[i] < moves => ~IsValid(idx[i])

\* an index older than a moving pass whose address is again that of an
\* active node: only the memory state tells it is stale
C4_Witness ==
    /\ policy = "OnThreshold"
    /\ \E i \in Taken :
        /\ born[i] < moves
        /\ idx[i].ptr \in ActivePositions

\* C5: a reclaim pass advances the memory state if and only if it moved at
\* least one node: a pass that moves a node increments the state, a pass that
\* moves nothing leaves it unchanged.
C5_StateAdvancesIffMoved ==
    [][last'.ran => (IF last'.moved THEN state' = state + 1 ELSE state' = state)]_vars

PtrHolds(ix, col, i) ==
    /\ ix[i].ptr # None
    /\ ptr_is_valid_for(ix[i].ptr, col)
    /\ col.nodes[ix[i].ptr].data = i

\* C7: under the Never policy an address taken right after a push is valid,
\* and stays valid until its own node is closed, however many other pushes
\* and closes happen.
C7_NeverKeepsAddressesValid ==
    [][(policy = "Never" /\ last'.op \notin {"reclaim", "clear"}) =>
        \A i \in 1..MaxItems :
            /\ (idx[i].ptr = None /\ idx'[i].ptr # None)
                   => PtrHolds(idx', Col(nodes', ends', len'), i)
            /\ (PtrHolds(idx, Cur, i) /\ i \in ActiveItems(nodes'))
                   => PtrHolds(idx', Col(nodes', ends', len'), i)]_vars

\* an address is still valid although other nodes were pushed and closed
C7_Witness ==
    /\ policy = "Never"
    /\ last.op = "close"
    /\ Len(nodes) >= 3
    /\ Len(nodes) - len >= 2
    /\ \E i \in Taken : PtrHolds(idx, Cur, i)

\* C8: under OnThreshold<D>, right after each close the policy runs the
\* reclaimer if and only if vacant > storage length >> D, where vacant is the
\* storage length minus the number of active nodes after the close.
C8_ReclaimIffAboveThreshold ==
    [][(policy = "OnThreshold" /\ last'.op = "close") =>
        (last'.ran <=> (Len(nodes) - (len - 1)) > (Len(nodes) \div (2 ^ D)))]_vars

\* a close that leaves exactly the allowed number of vacant nodes
C8_Witness ==
    /\ policy = "OnThreshold"
    /\ last.op = "close"
    /\ ~last.ran
    /\ D >= 1
    /\ Len(nodes) - len = Len(nodes) \div (2 ^ D)
    /\ Len(nodes) > len

C10_CloseThenReclaimRefinesList ==
    last.ran => (len = Len(order) /\ forward(Cur) = order)

\* a pass moved nodes of a list whose order is not the order of pushing
C10_Witness ==
    /\ last.ran
    /\ last.moved
    /\ Len(order) >= 2
    /\ order[1] > order[2]

\* OnThreshold<2> on a storage of four nodes
Threshold2OnFour == policy = "OnThreshold" /\ D = 2 /\ Len(nodes) = 4

\* C11 as stated: with OnThreshold<2> and 4 pushed items, the first close
\* runs no reclaim pass (1 is not greater than 4 >> 2); the second close runs
\* one, after which the storage length is 2 and the memory state has
\* incremented.
C11_ScenarioAsStated ==
    [][(Threshold2OnFour /\ last'.op = "close") =>
        /\ len = 4 => (~last'.ran /\ Len(nodes') = 4 /\ state' = state)
        /\ len = 3 => (last'.ran /\ Len(nodes') = 2 /\ state' = state + 1)]_vars

\* C11 amended: as above, but after the second close the memory state has
\* incremented if the pass moved a node, and is never decremented.
C11_ScenarioAmended ==
    [][(Threshold2OnFour /\ last'.op = "close") =>
        /\ len = 4 => (~last'.ran /\ Len(nodes') = 4 /\ state' = state)
        /\ len = 3 => /\ last'.ran
                      /\ Len(nodes') = 2
                      /\ last'.moved => state' = state + 1
                      /\ state' \in {state, state + 1}]_vars

\* the second close of the scenario: the fourth item was pushed to the
\* fourth position and a pass has just cut the storage to two nodes
C11_Witness ==
    /\ policy = "OnThreshold" /\ D = 2
    /\ idx[4].ptr = 4
    /\ last.op = "close" /\ last.ran
    /\ Len(nodes) = 2

C13_ClearAdvancesState ==
    [][last'.op = "clear" => state' # state]_vars

\* C14: clear() followed by clear() leaves the collection in the same
\* observable state as a single clear(): empty storage, empty ends, no
\* active node, and a memory state advanced at most once per clear().
C14_ClearIsIdempotent ==
    [][last'.op = "clear" =>
        /\ nodes' = <<>> /\ ends' = <<None, None>> /\ len' = 0
        /\ state' \in {state, state + 1}
        /\ last.op = "clear" =>
               (nodes' = nodes /\ ends' = ends /\ len' = len /\ forward(Cur) = <<>>)]_vars

\* item 1 was pushed in state 0, nothing was moved, and two clear() calls
\* followed
C14_Witness ==
    /\ items = 1
    /\ idx[1].state = 0
    /\ moves = 0
    /\ last.op = "clear"
    /\ IF rev = "v2" THEN state = 2 ELSE state = 0
    /\ Len(nodes) = 0 /\ len = 0

\* node indices of another collection: their addresses lie in the storage
\* of that collection (written as negative numbers), their state is any
ForeignIndices ==
    {NodeIdx_new(s, 0 - p) : p \in 1..MaxNodes, s \in 0..MaxState}

\* C15: a node index produced by one collection and presented to a different
\* collection, in any state of either, is reported invalid with reason
\* WrongCollection.
C15_ForeignIndexIsWrongCollection ==
    \A h \in ForeignIndices :
        /\ ~ValidIn(h, Cur, state)
        /\ ReasonIn(h, Cur, state) = "WrongCollection"

\* index i is valid for the collection (col, st) and its node holds item i
IndexHolds(i, col, st) ==
    /\ idx[i].ptr # None
    /\ ValidIn(idx[i], col, st)
    /\ col.nodes[idx[i].ptr].data = i

\* C16: when a close runs no reclaim pass, the index of the closed node is
\* invalid with reason RemovedNode, and the indices of all nodes that are
\* still active stay valid and access their own elements.
C16_CloseWithoutPassRemovesOnlyItsIndex ==
    [][(last'.op \in {"close", "close_if_active"} /\ ~last'.ran) =>
        \A i \in 1..MaxItems :
            IndexHolds(i, Cur, state) =>
                IF i \in ActiveItems(nodes')
                THEN IndexHolds(i, Col(nodes', ends', len'), state')
                ELSE /\ ~ValidIn(idx[i], Col(nodes', ends', len'), state')
                     /\ ReasonIn(idx[i], Col(nodes', ends', len'), state')
                            = "RemovedNode"]_vars

\* a close without a pass: one index reports RemovedNode, another is valid
C16_Witness ==
    /\ last.op = "close" /\ ~last.ran
    /\ \E i \in Taken : ReasonIn(idx[i], Cur, state) = "RemovedNode"
    /\ \E i \in Taken : IndexHolds(i, Cur, state)

\* C17: the checked dereference of a node index returns a node if and only
\* if the index is valid for the collection (same memory state, address in
\* the storage, node active); for every invalid index, also one whose node
\* has been closed, it returns none.
C17_DerefIffValid ==
    \A i \in Taken :
        Deref(idx[i], Cur, state).some <=>
            /\ idx[i].state = state
            /\ idx[i].ptr >= 1 /\ idx[i].ptr <= Len(nodes)
            /\ nodes[idx[i].ptr].data # None

\* C18: under the Never policy the reclaim step that follows a close does
\* nothing: no node moves, the storage keeps its length, the memory state is
\* unchanged and nothing is reported as moved, whatever the vacancy ratio.
C18_NeverReclaimIsNoOp ==
    [][(policy = "Never" /\ last'.op = "close") =>
        /\ ~last'.ran /\ ~last'.moved
        /\ moves' = moves
        /\ Len(nodes') = Len(nodes)
        /\ state' = state
        /\ len' = len - 1
        /\ \A p \in 1..Len(nodes) : nodes'[p].data \in {nodes[p].data, None}]_vars

\* a close under Never that leaves three quarters of the storage vacant
C18_Witness ==
    /\ policy = "Never"
    /\ last.op = "close"
    /\ Len(nodes) = 4
    /\ len = 1

\* the reclaim pass of the running revision on a collection
CompactionOf(col) ==
    IF rev = "v1" THEN truncate(reorganize_nodes(col), col.len)
    ELSE truncate(reclaim_nodes(col).col, col.len)

\* C19: a manual reclaim behaves as the compaction of the threshold policy,
\* whatever the policy of the collection and the vacancy ratio: whenever a
\* closed node exists it compacts, and no closed node remains.
C19_ManualReclaimCompacts ==
    [][last'.op = "reclaim" =>
        /\ last'.ran
        /\ \A p \in 1..Len(nodes') : is_active(nodes'[p])
        /\ Len(nodes') = len' /\ len' = len
        /\ Col(nodes', ends', len') = CompactionOf(Cur)
        /\ forward(Col(nodes', ends', len')) = forward(Cur)]_vars

\* a manual reclaim under Never moved a node although a single node of four
\* was vacant
C19_Witness ==
    /\ policy = "Never"
    /\ last.op = "reclaim" /\ last.moved
    /\ Len(nodes) = 3 /\ len = 3

\* C20 as stated: with OnThreshold<0> a close compacts as soon as a vacant
\* node exists.
C20_ThresholdZeroReclaimsAtOnce ==
    [][(policy = "OnThreshold" /\ D = 0 /\ last'.op = "close") => last'.ran]_vars

\* C20 amended: with OnThreshold<0> no close ever compacts (the number of
\* vacant nodes never exceeds storage length >> 0): storage length and memory
\* state stay as they are.
C20_ThresholdZeroNeverReclaims ==
    [][(policy = "OnThreshold" /\ D = 0 /\ last'.op = "close") =>
        /\ ~last'.ran /\ ~last'.moved
        /\ Len(nodes') = Len(nodes)
        /\ state' = state]_vars

\* OnThreshold<0>: the last node of a storage of three was closed and the
\* storage is kept
C20_Witness ==
    /\ policy = "OnThreshold" /\ D = 0
    /\ last.op = "close" /\ ~last.ran
    /\ Len(nodes) = 3
    /\ len = 0

\* C21: with OnThreshold<0> the policy is equivalent to Never: no close and no
\* close_if_active, at any storage length and any number of vacant nodes,
\* triggers a compaction; every position keeps its node (up to the closing of
\* payloads), and the threshold test is false in the state the close leaves.
C21_ThresholdZeroIsNever ==
    [][(policy = "OnThreshold" /\ D = 0
            /\ last'.op \in {"close", "close_if_active", "close_if_closed"}) =>
        /\ ~last'.ran /\ ~last'.moved
        /\ moves' = moves
        /\ Len(nodes') = Len(nodes)
        /\ \A p \in 1..Len(nodes) : nodes'[p].data \in {nodes[p].data, None}
        /\ ~need_to_reclaim_vacant_nodes(Col(nodes', ends', len'), 0)
        /\ on_threshold_reclaim_closed_nodes(Col(nodes', ends', len'), 0)
               = never_reclaim_closed_nodes(Col(nodes', ends', len'))]_vars

\* OnThreshold<0>: three of the four nodes of the storage are closed and no
\* pass has ever moved a node
C21_Witness ==
    /\ policy = "OnThreshold" /\ D = 0
    /\ last.op = "close"
    /\ Len(nodes) = 4 /\ len = 1
    /\ moves = 0

\* ------------------------------------------- direct use of the CoreCol
\* The operations of the CoreCol called directly, as a reclaimer or a careless
\* caller may, on a collection that the list has built.  A panic ends the
\* behaviour: the collection is not followed after it.

\* variant of close_panics in which closing a closed node returns normally
close_returns_normally(node) == FALSE

\* Node::close panics on a closed node: data.take().expect("must be an open node")
close_panics(node) == is_closed(node)

\* Node::swap_data panics on a closed node: debug_assert!(is_active) and
\* data.replace(new_value).expect("must be active")
swap_data_panics(node) == is_closed(node)

\* the item that CoreCol::close returns
close_item(col, ptr) == col.nodes[ptr].data

\* the Option<Item> that CoreCol::close_if_active returns; None is 0
close_if_active_item(col, ptr) ==
    IF is_active(col.nodes[ptr]) THEN col.nodes[ptr].data ELSE None

\* CoreCol::swap_data on an active node
swap_data(col, ptr, new_value) == [col EXCEPT !.nodes[ptr].data = new_value]

\* the debug assertions of CoreCol::move_node
move_node_asserts(col, closed_position, active_position) ==
    /\ closed_position < active_position
    /\ is_closed(col.nodes[closed_position])
    /\ is_active(col.nodes[active_position])

\* Node::take_data: takes the data out, the references stay
node_take_data(node) == [node EXCEPT !.data = None]

CoreOps == {"core_close", "core_close_if_active", "core_move_node", "core_swap_data",
            "core_take_data", "core_append"}

\* a direct call has been made
Probed == last.op \in CoreOps

\* what a direct call did
CoreLast(op, ptr, item, panics) ==
    [op |-> op, ran |-> FALSE, moved |-> FALSE, ptr |-> ptr, item |-> item, panics |-> panics]

\* the value handed to swap_data
NewValue == MaxItems + 1

\* the list operations, as long as no direct call has been made
ListStep ==
    /\ ~Probed
    /\ \/ PushFirst
       \/ PushFront
       \/ PushBack
       \/ PopFront
       \/ PopBack
       \/ \E at \in 0..(MaxNodes - 1) : RemoveAt(at)

\* self.len -= 1 of CoreCol::close, which runs before Node::close: at zero a
\* debug build panics on the overflow and leaves len, a release build wraps
len_minus_one(n, debug) ==
    IF n > 0 THEN n - 1 ELSE IF debug THEN n ELSE UsizeMax

\* col.close(&ptr) on any node of the storage; on a closed node the panic of
\* Node::close comes after the decrement of len
CoreClose(p) ==
    /\ ~Probed
    /\ p \in 1..Len(nodes)
    /\ IF close_panics(nodes[p])
       THEN /\ last' = CoreLast("core_close", p, None, TRUE)
            /\ \E debug \in BOOLEAN : len' = len_minus_one(len, debug)
            /\ UNCHANGED <<nodes, ends, state>>
       ELSE /\ Install(close(Cur, p), state)
            /\ last' = CoreLast("core_close", p, close_item(Cur, p), FALSE)
    /\ UNCHANGED <<readers, references, rev, policy, D, idx, items, order, moves, born>>

\* col.close_if_active(&ptr) on any node of the storage, also repeatedly
CoreCloseIfActive(p) ==
    /\ ~Probed \/ last.op = "core_close_if_active"
    /\ p \in 1..Len(nodes)
    /\ Install(close_if_active(Cur, p), state)
    /\ last' = CoreLast("core_close_if_active", p, close_if_active_item(Cur, p), FALSE)
    /\ UNCHANGED <<readers, references, rev, policy, D, idx, items, order, moves, born>>

\* col.move_node(closed_position, active_position) on any two positions; a
\* call that breaks the assertions panics in a debug build and swaps in a
\* release build
CoreMoveNode(c, a) ==
    /\ ~Probed
    /\ c \in 1..Len(nodes) /\ a \in 1..Len(nodes)
    /\ \E debug \in BOOLEAN :
          IF debug /\ ~move_node_asserts(Cur, c, a)
          THEN /\ last' = CoreLast("core_move_node", <<c, a>>, None, TRUE)
               /\ UNCHANGED <<nodes, ends, len, state>>
          ELSE /\ Install(move_node(Cur, c, a), state)
               /\ last' = CoreLast("core_move_node", <<c, a>>, None, FALSE)
    /\ UNCHANGED <<readers, references, rev, policy, D, idx, items, order, moves, born>>

\* col.swap_data(&ptr, new_value) on any node of the storage
CoreSwapData(p) ==
    /\ ~Probed
    /\ p \in 1..Len(nodes)
    /\ IF swap_data_panics(nodes[p])
       THEN /\ last' = CoreLast("core_swap_data", p, None, TRUE)
            /\ UNCHANGED <<nodes, ends, len, state>>
       ELSE /\ Install(swap_data(Cur, p, NewValue), state)
            /\ last' = CoreLast("core_swap_data", p, nodes[p].data, FALSE)
    /\ UNCHANGED <<readers, references, rev, policy, D, idx, items, order, moves, born>>

\* col.node_mut(&ptr).take_data() on any node of the storage; it returns
\* the data, or none from a closed node
CoreTakeData(p) ==
    /\ ~Probed
    /\ p \in 1..Len(nodes)
    /\ nodes' = [nodes EXCEPT ![p] = node_take_data(@)]
    /\ last' = CoreLast("core_take_data", p, nodes[p].data, FALSE)
    /\ UNCHANGED <<ends, len, state>>
    /\ UNCHANGED <<readers, references, rev, policy, D, idx, items, order, moves, born>>

\* the largest storage that is appended
MaxAppend == 2

\* CoreCol::append_nodes: len grows by the length of the appended storage
append_nodes(col, other) ==
    [col EXCEPT !.len = @ + Len(other), !.nodes = @ \o other]

\* SelfRefCol::append_mutate (v1) with a lambda that sets no reference: len
\* grows by other.len, the number of active nodes of the other collection
append_mutate(col, other) ==
    [col EXCEPT !.len = @ + Cardinality({i \in 1..Len(other) : is_active(other[i])}),
                !.nodes = @ \o other]

\* the storages that are appended: nodes without references, active (pushed
\* and never linked) or closed
OtherStorages ==
    UNION {[1..k -> {new_free_node(NewValue), node_close(new_free_node(NewValue))}] :
           k \in 1..MaxAppend}

\* the storage of another collection is appended
CoreAppend(other) ==
    /\ ~Probed
    /\ Install(IF rev = "v1" THEN append_mutate(Cur, other) ELSE append_nodes(Cur, other),
               state)
    /\ last' = CoreLast("core_append", Len(nodes), None, FALSE)
    /\ UNCHANGED <<readers, references, rev, policy, D, idx, items, order, moves, born>>

CoreNext ==
    \/ ListStep
    \/ \E other \in OtherStorages : CoreAppend(other)
    \/ \E p \in 1..MaxNodes : CoreTakeData(p)
    \/ \E p \in 1..MaxNodes : CoreClose(p)
    \/ \E p \in 1..MaxNodes : CoreCloseIfActive(p)
    \/ \E c \in 1..MaxNodes : \E a \in 1..MaxNodes : CoreMoveNode(c, a)
    \/ \E p \in 1..MaxNodes : CoreSwapData(p)

CoreSpec == Init /\ [][CoreNext]_vars

\* C22: close on an active node returns normally with the payload of that
\* node, decrements the count of active nodes by exactly one and leaves the
\* node closed with empty prev and next; no other node, nor the ends, nor the
\* storage length changes.
C22_CloseClosesOneNode ==
    [][(last'.op = "core_close" /\ is_active(nodes[last'.ptr])) =>
        LET p == last'.ptr
        IN /\ ~last'.panics
           /\ last'.item = nodes[p].data
           /\ len' = len - 1
           /\ nodes'[p] = [data |-> None, prev |-> None, next |-> None]
           /\ Len(nodes') = Len(nodes)
           /\ \A q \in 1..Len(nodes) : q # p => nodes'[q] = nodes[q]
           /\ ends' = ends
           /\ state' = state]_vars

\* a node in the middle of a list of three was closed directly: its
\* neighbours still hold their references to it
C22_Witness ==
    /\ last.op = "core_close" /\ ~last.panics
    /\ last.item # None
    /\ Len(nodes) = 3 /\ len = 2
    /\ \E q \in 1..Len(nodes) : nodes[q].next = last.ptr
    /\ \E q \in 1..Len(nodes) : nodes[q].prev = last.ptr

\* C23: close and swap_data on a node that is already closed panic; they
\* never return normally.
C23_ClosedNodeFailsLoudly ==
    [][(last'.op \in {"core_close", "core_swap_data"} /\ is_closed(nodes[last'.ptr])) =>
        last'.panics]_vars

\* close was called on a closed node of a storage without active nodes
C23_Witness ==
    /\ last.op = "core_close" /\ last.panics
    /\ is_closed(nodes[last.ptr])
    /\ len = 0 /\ Len(nodes) = 2

\* C24: close_if_active on an active node returns the payload and acts
\* exactly like close; on a closed node it returns none and changes neither
\* the count of active nodes nor the storage nor any reference.
C24_CloseIfActiveIsIdempotent ==
    [][last'.op = "core_close_if_active" =>
        LET p == last'.ptr
        IN IF is_active(nodes[p])
           THEN /\ last'.item = nodes[p].data
                /\ len' = len - 1
                /\ Col(nodes', ends', len') = close(Cur, p)
                /\ is_closed(nodes'[p])
           ELSE /\ last'.item = None
                /\ nodes' = nodes /\ ends' = ends /\ len' = len
        ]_vars

\* the second of two close_if_active calls on the same node: the node is
\* closed, a neighbour still refers to it, the call returned none
C24_Witness ==
    /\ last.op = "core_close_if_active"
    /\ last.item = None
    /\ is_closed(nodes[last.ptr])
    /\ \E q \in 1..Len(nodes) : nodes[q].next = last.ptr
    /\ len >= 1

\* C25: move_node(vacant, active) with vacant closed, active active and
\* vacant < active returns normally, leaves slot vacant active with payload,
\* prev and next of the formerly active node, leaves slot active closed, and
\* changes neither the count of active nodes nor the storage length nor any
\* other slot.
C25_MoveNodeSwapsTwoSlots ==
    [][(last'.op = "core_move_node"
            /\ move_node_asserts(Cur, last'.ptr[1], last'.ptr[2])) =>
        LET c == last'.ptr[1]
            a == last'.ptr[2]
        IN /\ ~last'.panics
           /\ nodes'[c] = nodes[a]
           /\ is_active(nodes'[c])
           /\ is_closed(nodes'[a])
           /\ nodes'[a] = nodes[c]
           /\ len' = len
           /\ Len(nodes') = Len(nodes)
           /\ \A q \in 1..Len(nodes) : q \notin {c, a} => nodes'[q] = nodes[q]
           /\ ends' = ends]_vars

\* the last node of a list of three was moved into the vacant first slot
C25_Witness ==
    /\ last.op = "core_move_node" /\ ~last.panics
    /\ last.ptr = <<1, 4>>
    /\ is_active(nodes[1]) /\ nodes[1].prev # None
    /\ is_closed(nodes[4])
    /\ len = 3

\* ------------------------------------ the reference containers on their own
\* Any call of the public operations of RefsArrayLeftMost<MaxRefs> on a
\* container that starts empty, and update_reference on the containers of the
\* SelfRefCol revision.  A panic ends the behaviour, and so does a len that
\* has wrapped.
Cnt == Container(references.array, references.len)

LeftMost == references.kind = "left_most"

Terminal == references.panics \/ references.len > MaxRefs

Ptrs == 1..MaxPtr

\* the call op(a, b) with outcome r has been made
Apply(op, a, b, r) ==
    /\ references' = Refs(references.kind, r.c, op, a, b, r.ret, r.panics)
    /\ UNCHANGED colvars

RefsPush(p) ==
    /\ LeftMost /\ ~Terminal
    /\ Apply("push", p, None, refs_push(Cnt, p))

RefsInsert(position, p) ==
    /\ LeftMost /\ ~Terminal
    /\ Apply("insert", position, p, refs_insert(Cnt, position, p))

RefsPushBefore(pivot, p) ==
    /\ LeftMost /\ ~Terminal
    /\ Apply("push_before", pivot, p, refs_push_before(Cnt, pivot, p))

RefsPushAfter(pivot, p) ==
    /\ LeftMost /\ ~Terminal
    /\ Apply("push_after", pivot, p, refs_push_after(Cnt, pivot, p))

RefsReplaceWith(old, new) ==
    /\ LeftMost /\ ~Terminal
    /\ Apply("replace_with", old, new, refs_replace_with(Cnt, old, new))

RefsRemove(p) ==
    /\ LeftMost /\ ~Terminal
    /\ \E debug \in BOOLEAN : Apply("remove", p, None, refs_remove(Cnt, p, debug))

RefsRemoveAt(ref_idx) ==
    /\ LeftMost /\ ~Terminal
    /\ \E debug \in BOOLEAN : Apply("remove_at", ref_idx, None, refs_remove_at(Cnt, ref_idx, debug))

RefsClear ==
    /\ LeftMost /\ ~Terminal
    /\ references.op # "clear"
    /\ Apply("clear", None, None, Ok(refs_clear(Cnt), NoPosition))

\* update_reference(prior_reference, new_reference) on a NodeRefSingle,
\* NodeRefsArray or NodeRefsVec
UpdateReference(old, new) ==
    /\ references.kind \in {"single", "array", "vec"}
    /\ LET updated ==
            IF references.kind = "single"
            THEN <<update_reference(references.array[1], old, new)>>
            ELSE IF references.kind = "array"
            THEN update_reference_array(references.array, old, new)
            ELSE update_reference_vec(references.array, old, new)
       IN Apply("update_reference", old, new, Ok(Container(updated, references.len), NoPosition))

RefsInit ==
    /\ ColInit
    /\ rev = "v2" /\ policy = "Never"
    /\ references \in RefsInputs
    /\ readers = [t \in 1..MaxThreads |-> IdleReader]

RefsNext ==
    \/ \E p \in Ptrs : RefsPush(p)
    \/ \E position \in 0..MaxRefs : \E p \in Ptrs : RefsInsert(position, p)
    \/ \E pivot \in Ptrs : \E p \in Ptrs : RefsPushBefore(pivot, p)
    \/ \E pivot \in Ptrs : \E p \in Ptrs : RefsPushAfter(pivot, p)
    \/ \E old \in Ptrs : \E new \in Ptrs : RefsReplaceWith(old, new)
    \/ \E p \in Ptrs : RefsRemove(p)
    \/ \E ref_idx \in 0..MaxRefs : RefsRemoveAt(ref_idx)
    \/ RefsClear
    \/ \E old \in Ptrs : \E new \in Ptrs : UpdateReference(old, new)

RefsSpec == RefsInit /\ [][RefsNext]_vars

\* all references of the array are to the left of all empty slots, and len
\* counts them
LeftAligned(c) ==
    \A i \in 1..MaxRefs : (c.array[i] # None) <=> (i <= c.len)

\* C26: a RefsArrayLeftMost<N> that holds N references rejects every push,
\* insert, push_before and push_after with a panic and keeps its N slots as
\* they are; it never drops a reference to make room.
C26_FullArrayRejects ==
    [][(LeftMost /\ references.len = MaxRefs
            /\ references'.op \in {"push", "insert", "push_before", "push_after"}) =>
        /\ references'.panics
        /\ references'.array = references.array
        /\ references'.len = references.len]_vars

\* an insert into the middle of a full array was rejected and the three
\* references are in place
C26_Witness ==
    /\ LeftMost
    /\ references.op = "insert" /\ references.a = 1
    /\ references.panics
    /\ references.len = MaxRefs
    /\ \A i \in 1..MaxRefs : references.array[i] # None

C28_UpdateReferenceReplacesAll ==
    [][references'.op = "update_reference" =>
        /\ references'.kind = references.kind
        /\ references.kind \in {"single", "array", "vec"}
        /\ DOMAIN references'.array = DOMAIN references.array
        /\ \A i \in DOMAIN references.array :
              references'.array[i] =
                  IF references.array[i] = references'.a THEN references'.b
                  ELSE references.array[i]]_vars

\* a NodeRefsArray with an empty slot between two references that one
\* update has redirected
C28_Witness ==
    /\ references.kind = "array"
    /\ references.op = "update_reference"
    /\ references.a = 1 /\ references.b = 2
    /\ references.array[1] = 2 /\ references.array[2] = None /\ references.array[3] = 2

\* C29: in a RefsArrayLeftMost, after any calls that returned, exactly the
\* first len slots hold a reference and every slot from len on is empty.
C29_LeftAlignedAlways ==
    (LeftMost /\ ~references.panics) => LeftAligned(Cnt)

\* C30: when the pivot exists, push_before and push_after return the
\* position of the slot that holds the new reference after the call.
C30_PushReturnsNewPosition ==
    [][(LeftMost /\ LeftAligned(Cnt)
            /\ references'.op \in {"push_before", "push_after"}
            /\ iter_position(Cnt, references'.a) # NoPosition
            /\ ~references'.panics) =>
        /\ references'.ret # NoPosition
        /\ references'.array[references'.ret + 1] = references'.b]_vars

\* C31: when the pivot is not in the container, push_before and push_after
\* return none and leave array and len as they are, in every state of the
\* container, a full one included.
C31_AbsentPivotDoesNothing ==
    [][(LeftMost
            /\ references'.op \in {"push_before", "push_after"}
            /\ iter_position(Cnt, references'.a) = NoPosition) =>
        /\ ~references'.panics
        /\ references'.ret = NoPosition
        /\ references'.array = references.array
        /\ references'.len = references.len]_vars

\* variant of utilization that counts every node of the storage as active
utilization_of_storage(col) ==
    [num_active_nodes |-> Len(col.nodes), num_closed_nodes |-> 0]

\* CoreCol::utilization, without the capacity of the storage
utilization(col) ==
    [num_active_nodes |-> col.len, num_closed_nodes |-> Len(col.nodes) - col.len]

\* C32: three items are in a list whose storage holds exactly their three
\* nodes; the middle one is unlinked and closed and no compaction runs.  Then
\* the traversal from front to back yields the first and the third item and
\* utilization reports 2 active nodes and 1 closed node, which add up to the
\* storage length 3.
C32_CloseMiddleOfThree ==
    [][(Len(nodes) = 3 /\ len = 3 /\ Len(order) = 3
            /\ last'.op \in {"close", "close_if_active"} /\ ~last'.ran
            /\ order' = <<order[1], order[3]>>) =>
        LET c == Col(nodes', ends', len')
        IN /\ forward(Cur) = order
           /\ forward(c) = <<order[1], order[3]>>
           /\ utilization(c) = [num_active_nodes |-> 2, num_closed_nodes |-> 1]
           /\ utilization(c).num_active_nodes + utilization(c).num_closed_nodes = Len(nodes')
           /\ Len(nodes') = 3
           /\ Cardinality({p \in 1..3 : is_closed(nodes'[p])}) = 1]_vars

\* items 1, 2, 3 were pushed to the back and item 2 was removed without a
\* compaction
C32_Witness ==
    /\ items = 3
    /\ last.op = "close" /\ ~last.ran
    /\ order = <<1, 3>>
    /\ Len(nodes) = 3 /\ len = 2
    /\ is_closed(nodes[2])
    /\ moves = 0

\* ---------------------------------------------- threads that only read
\* The list is built by one thread; then, as in send_node_idx, threads are
\* spawned in a scope that shares &col, and each runs
\*     assert!(idx.is_valid_for(col)); idx.node(col).and_then(|n| n.data())
\* on the index of one item.  is_valid_for reads the memory state, the bounds
\* of the storage and the node, in this order and one at a time; a failed
\* assertion ends the thread.

\* some thread holds &col
ReadersActive == \E t \in 1..MaxThreads : readers[t].pc # "idle"

\* the index that thread t reads through
HandleOf(t) == idx[readers[t].item]

\* the list operations of the thread that owns the collection
BuildStep ==
    /\ ~ReadersActive
    /\ \/ PushFirst
       \/ PushFront
       \/ PushBack
       \/ PopFront
       \/ PopBack
       \/ \E at \in 0..(MaxNodes - 1) : RemoveAt(at)

\* what a step of a thread leaves alone
ReaderFrame ==
    UNCHANGED <<rev, policy, D, nodes, ends, len, state, idx, items, last, order,
                moves, born, references>>

\* s.spawn(move || ..) with the index of item i
Spawn(t, i) ==
    /\ readers[t].pc = "idle"
    /\ i \in 1..MaxItems /\ idx[i].ptr # None
    /\ readers' = [readers EXCEPT ![t] = [pc |-> "state", item |-> i, valid |-> FALSE, value |-> None]]
    /\ ReaderFrame

\* variant of ReadState that does not compare the memory states
ReadStateSkipped(t) ==
    /\ readers[t].pc = "state"
    /\ readers' = [readers EXCEPT ![t].pc = "contains"]
    /\ ReaderFrame

\* self.state == collection.memory_state()
ReadState(t) ==
    /\ readers[t].pc = "state"
    /\ readers' = [readers EXCEPT ![t].pc =
                      IF HandleOf(t).state = state THEN "contains" ELSE "done"]
    /\ ReaderFrame

\* && collection.nodes().contains_ptr(self.ptr)
ReadContains(t) ==
    /\ readers[t].pc = "contains"
    /\ readers' = [readers EXCEPT ![t].pc =
                      IF contains_ptr(Cur, HandleOf(t).ptr) THEN "active" ELSE "done"]
    /\ ReaderFrame

\* && unsafe { &*self.ptr }.is_active()
ReadActive(t) ==
    /\ readers[t].pc = "active"
    /\ IF is_active(nodes[HandleOf(t).ptr])
       THEN readers' = [readers EXCEPT ![t].pc = "node", ![t].valid = TRUE]
       ELSE readers' = [readers EXCEPT ![t].pc = "done"]
    /\ ReaderFrame

\* idx.node(col).and_then(|n| n.data().cloned())
ReadData(t) ==
    /\ readers[t].pc = "node"
    /\ LET n == node_from_idx(HandleOf(t), Cur, state)
       IN readers' = [readers EXCEPT ![t].pc = "done",
                         ![t].value = IF n.some THEN nodes[n.ptr].data ELSE None]
    /\ ReaderFrame

ReadNext ==
    \/ BuildStep
    \/ \E t \in 1..MaxThreads : \E i \in 1..MaxItems : Spawn(t, i)
    \/ \E t \in 1..MaxThreads : ReadState(t)
    \/ \E t \in 1..MaxThreads : ReadContains(t)
    \/ \E t \in 1..MaxThreads : ReadActive(t)
    \/ \E t \in 1..MaxThreads : ReadData(t)

ReadInit == Init /\ rev = "v2"

ReadSpec == ReadInit /\ [][ReadNext]_vars

\* the results of the same reads made by one thread alone
SequentialValid(h) == is_valid_for(h, Cur, state)

SequentialValue(h) == IF is_valid_for(h, Cur, state) THEN nodes[h.ptr].data ELSE None

MaxSlots == 9

\* variant of move_cost in which the node is shifted slot by slot, each slot
\* read and written once
move_cost_shifting(closed_position, active_position) ==
    IF closed_position < active_position
    THEN 2 * (active_position - closed_position) ELSE 0

\* the node moves of one swap of a closed and an active slot
move_cost(closed_position, active_position) ==
    IF closed_position < active_position THEN 1 ELSE 0

\* the counters of a pass: any node moved, number of swaps, number of list
\* nodes visited by the inner loop
PassStart == [moved |-> FALSE, swaps |-> 0, visits |-> 0]

PassEnd(col, acc) ==
    [col |-> col, moved |-> acc.moved, swaps |-> acc.swaps, visits |-> acc.visits]

\* tests/singly_linked_list.rs, swap(col, vacant, occupied, prev)
singly_swap(col, vacant, occupied, prev) ==
    LET new_idx == vacant
        c1 == IF prev # None
              THEN [col EXCEPT !.nodes[prev].next = new_idx]
              ELSE [col EXCEPT !.ends[1] = new_idx]
    IN move_node(c1, vacant, occupied)

\* OnThresholdReclaimer::reclaim_nodes of the singly linked list: the for
\* loop over vacant (singly_reclaim_from) and its inner loop over the list
\* (singly_walk); current is the address held by the variable current
RECURSIVE singly_reclaim_from(_, _, _, _, _)
RECURSIVE singly_walk(_, _, _, _, _)
singly_reclaim_from(col, vacant, current, prev, acc) ==
    IF vacant > Len(col.nodes) THEN PassEnd(col, acc)
    ELSE IF is_active(col.nodes[vacant])
         THEN singly_reclaim_from(col, vacant + 1, current, prev, acc)
         ELSE singly_walk(col, vacant, current, prev, acc)

singly_walk(col, vacant, current, prev, acc) ==
    LET occupied == current
        swapped == occupied > vacant
        c1 == IF swapped THEN singly_swap(col, vacant, occupied, prev) ELSE col
        acc1 == [moved |-> acc.moved \/ swapped,
                 swaps |-> acc.swaps + (IF swapped THEN move_cost(vacant, occupied) ELSE 0),
                 visits |-> acc.visits + 1]
        next == c1.nodes[current].next
    IN IF next = None THEN PassEnd(c1, acc1)
       ELSE IF swapped THEN singly_reclaim_from(c1, vacant + 1, next, occupied, acc1)
       ELSE singly_walk(c1, vacant, next, occupied, acc1)

singly_reclaim_nodes(col) ==
    IF col.ends[1] # None
    THEN singly_reclaim_from(col, 1, col.ends[1], None, PassStart)
    ELSE PassEnd(col, PassStart)

\* MemoryReclaimOnThreshold<D, Singly<T>, OnThresholdReclaimer>::
\* reclaim_closed_nodes; before is the storage handed to truncate
singly_on_threshold_reclaim_closed_nodes(col, d) ==
    LET num_active_nodes == col.len
        used == Len(col.nodes)
        allowed_vacant == shr(used, d)
        num_vacant == used - num_active_nodes
    IN IF num_vacant <= allowed_vacant
       THEN [col |-> col, moved |-> FALSE, ran |-> FALSE, before |-> col]
       ELSE LET r == singly_reclaim_nodes(col)
            IN [col |-> truncate(r.col, num_active_nodes), moved |-> r.moved,
                ran |-> TRUE, before |-> r.col]

\* SelfRefCol::close_and_reclaim (v2) of the singly linked list
singly_close_and_reclaim(col, st, ptr) ==
    LET c == close(col, ptr)
        r == IF policy = "Never"
             THEN [col |-> c, moved |-> FALSE, ran |-> FALSE, before |-> c]
             ELSE singly_on_threshold_reclaim_closed_nodes(c, D)
    IN [col |-> r.col, state |-> update_state(st, r.moved), ran |-> r.ran,
        moved |-> r.moved, before |-> r.before]

\* push_front of the singly linked list
SinglyPushFront ==
    LET value == items + 1
        c1 == push(Cur, value)
        idx_new == Len(c1.nodes)
        old_front == Cur.ends[1]
        c2 == IF old_front # None
              THEN [c1 EXCEPT !.nodes[idx_new].next = old_front]
              ELSE c1
        c3 == [c2 EXCEPT !.ends[1] = idx_new]
    IN /\ items < MaxSlots
       /\ Len(nodes) < MaxSlots
       /\ Install(c3, state)
       /\ items' = items + 1
       /\ order' = <<value>> \o order
       /\ last' = [op |-> "push_front", ran |-> FALSE, moved |-> FALSE]
       /\ UNCHANGED <<readers, references, rev, policy, D, idx, moves, born>>

\* the collection with the front unlinked, as pop_front hands it to
\* close_and_reclaim
singly_unlink_front(col) ==
    LET front_idx == col.ends[1]
        new_front == col.nodes[front_idx].next
    IN [col EXCEPT !.ends[1] = new_front]

\* every address held by the front or by a next reference lies in the storage
singly_refs_in_storage(col) ==
    /\ col.ends[1] <= Len(col.nodes)
    /\ \A p \in 1..Len(col.nodes) : col.nodes[p].next <= Len(col.nodes)

\* pop_front of the singly linked list (on an empty list it returns None
\* and changes nothing); the run is not followed into a read through an
\* address that left the storage
SinglyPopFront ==
    LET front_idx == ends[1]
        r == singly_close_and_reclaim(singly_unlink_front(Cur), state, front_idx)
    IN /\ front_idx # None
       /\ singly_refs_in_storage(Cur)
       /\ Install(r.col, r.state)
       /\ order' = Tail(order)
       /\ last' = [op |-> "pop_front", ran |-> r.ran, moved |-> r.moved]
       /\ UNCHANGED <<readers, references, rev, policy, D, idx, items, moves, born>>

SinglyNext == SinglyPushFront \/ SinglyPopFront

SinglyInit == Init /\ rev = "v2"

SinglySpec == SinglyInit /\ [][SinglyNext]_vars

\* C35: whenever the threshold policy runs the list reclaimer and truncates
\* the storage to the number of active nodes, no active node sits at or
\* beyond that position: the truncation drops no active node (singly linked
\* list).
C35_TruncationDropsNoActiveNode ==
    [][last'.op = "pop_front" /\ last'.ran =>
        LET before == singly_close_and_reclaim(singly_unlink_front(Cur), state, ends[1]).before
        IN \A p \in 1..Len(before.nodes) : is_active(before.nodes[p]) => p <= len']_vars

\* ------------------------------------------- the node moves of one pass
\* the loop of OnThresholdReclaimer::reclaim_nodes of the doubly linked list
\* (reclaim_nodes_from), counting the node moves
RECURSIVE reclaim_nodes_moves_from(_, _, _, _)
reclaim_nodes_moves_from(col, vacant, right_bound, n) ==
    IF vacant > Len(col.nodes) THEN n
    ELSE IF is_closed(col.nodes[vacant])
         THEN LET cand == {o \in (vacant + 1)..(right_bound - 1) : is_active(col.nodes[o])}
              IN IF cand = {}
                 THEN reclaim_nodes_moves_from(col, vacant + 1, right_bound, n)
                 ELSE reclaim_nodes_moves_from(swap(col, vacant, Max(cand)), vacant + 1,
                                               Max(cand), n + move_cost(vacant, Max(cand)))
         ELSE reclaim_nodes_moves_from(col, vacant + 1, right_bound, n)

\* the forward loop of reorganize_nodes (reorganize_from), counting the node
\* moves
RECURSIVE reorganize_moves_from(_, _, _, _, _)
reorganize_moves_from(col, f, b, occupied_ptr, n) ==
    IF f > Len(col.nodes) THEN n
    ELSE IF f = occupied_ptr THEN n
    ELSE IF is_closed(col.nodes[f])
         THEN LET s == backward_scan(col, f, b)
              IN IF s.found
                 THEN LET c1 == lazy_swap(col, f, s.at)
                          c2 == [c1 EXCEPT !.ends = update_reference_array(@, s.at, f)]
                      IN reorganize_moves_from(c2, f + 1, s.at - 1, s.at, n + move_cost(f, s.at))
                 ELSE IF s.converged THEN n
                 ELSE reorganize_moves_from(col, f + 1, 0, occupied_ptr, n)
         ELSE reorganize_moves_from(col, f + 1, b, occupied_ptr, n)

\* the node moves of one pass of the doubly linked list's reclaimer of the
\* revision over the collection col
pass_moves(col) ==
    IF Len(col.nodes) = 0 THEN 0
    ELSE IF rev = "v1"
         THEN reorganize_moves_from(col, 1, Len(col.nodes), Len(col.nodes) + 1, 0)
         ELSE reclaim_nodes_moves_from(col, 1, Len(col.nodes) + 1, 0)

\* the collection after one pass of the doubly linked list's reclaimer
pass_col(col) ==
    IF rev = "v1" THEN reorganize_nodes(col) ELSE reclaim_nodes(col).col

\* a run uses one variant: the singly linked list once its operations began
SinglyInUse == last.op \in {"push_front", "pop_front"}

PassNext ==
    \/ ~SinglyInUse /\ Next
    \/ (SinglyInUse \/ last.op = "new") /\ rev = "v2" /\ SinglyNext

PassSpec == Init /\ [][PassNext]_vars

\* the collection that a closing step of the doubly linked list hands to the
\* policy: the closed item is unlinked and its node closed
ClosedInput ==
    LET d == CHOOSE d \in {order[i] : i \in 1..Len(order)} :
                 \A j \in 1..Len(order') : order'[j] # d
        p == CHOOSE q \in 1..Len(nodes) : nodes[q].data = d
    IN close(remove_at_unlink(Cur, p), p)

\* C34: one reclamation pass terminates and performs at most n node moves,
\* where n is the length of the storage when the pass starts: the pass of the
\* lazy bidirectional reclaimer, of the doubly linked list's reclaimer and of
\* the singly linked list's reclaimer (whose loop visits at most n list
\* nodes), on every storage that a policy or the manual reclaim hands to it.
C34_PassMovesAtMostN ==
    [][/\ (~SinglyInUse' /\ last'.op = "close" /\ last'.ran) =>
            /\ pass_moves(ClosedInput) <= Len(nodes)
            /\ nodes' = truncate(pass_col(ClosedInput), len').nodes
       /\ (last'.op = "reclaim" /\ last'.ran) =>
            /\ pass_moves(Cur) <= Len(nodes)
            /\ nodes' = truncate(pass_col(Cur), len').nodes
       /\ (last'.op = "pop_front" /\ last'.ran) =>
            LET r == singly_reclaim_nodes(close(singly_unlink_front(Cur), ends[1]))
            IN /\ r.swaps <= Len(nodes)
               /\ r.visits <= Len(nodes)
               /\ nodes' = truncate(r.col, len').nodes]_vars

\* the state right after a manual pass that moved nodes and left the fourth
\* and the third item in the first two slots of a storage of two
C34_Witness ==
    /\ last.op = "reclaim" /\ last.ran /\ last.moved
    /\ items = 4 /\ moves = 1
    /\ Len(nodes) = 2 /\ len = 2
    /\ nodes[1].data = 4
    /\ nodes[2].data = 3

\* the number of storage slots whose payload is present
num_active(ns) == Cardinality({p \in 1..Len(ns) : is_active(ns[p])})

\* C36: a close that fails on a node that is already closed has not changed
\* the count of active nodes: when it fails the count still equals the number
\* of storage slots with a payload.
C36_FailedCloseKeepsLen ==
    [][(last'.op = "core_close" /\ last'.panics) =>
        /\ len' = len
        /\ len' = num_active(nodes')]_vars

\* C38: every closed node of the storage has empty prev and next, after any
\* sequence of push, close, close_if_active, take_data, move_node and passes.
C38_ClosedNodesHaveNoEdges ==
    \A p \in 1..Len(nodes) :
        is_closed(nodes[p]) => nodes[p].prev = None /\ nodes[p].next = None

\* C39: after another storage is appended the count of active nodes equals
\* the number of active nodes of the merged storage, also when the appended
\* storage holds closed nodes.
C39_AppendKeepsLenExact ==
    [][last'.op = "core_append" => len' = num_active(nodes')]_vars

\* ------------------------------------------- NodeIndex: data, data_or_error
\* variant of data that does not compare the memory state
data_of_any_state(h, col, st) ==
    IF contains_ptr(col, h.ptr) /\ is_active(col.nodes[h.ptr])
    THEN col.nodes[h.ptr].data ELSE None

\* NodeIndex::data (v1): Some(data) or None (0)
data(h, col, st) ==
    IF is_valid_for_collection(h, col, st) THEN col.nodes[h.ptr].data ELSE None

\* NodeIndex::data_or_error (v1): Ok(data) or Err(error); the expect on the
\* data of the node panics when the node has none
data_or_error(h, col, st) ==
    LET error == invalidity_reason_for_collection(h, col, st)
    IN IF error = "None"
       THEN [ok |-> TRUE, data |-> col.nodes[h.ptr].data, err |-> "None",
             panics |-> col.nodes[h.ptr].data = None]
       ELSE [ok |-> FALSE, data |-> None, err |-> error, panics |-> FALSE]

\* C40: for every node index and every state of the collection,
\* invalidity_reason_for_collection returns None exactly when
\* is_valid_for_collection returns true, and data_or_error returns Ok exactly
\* when data returns Some, with the same data (SelfRefCol revision).  The
\* node indices are those of another collection and those of any address, in
\* or beyond the storage, and any state.
C40_ReasonAndDataAgree ==
    rev = "v1" =>
        \A h \in ForeignIndices \cup {NodeIdx_new(s, p) : p \in 1..MaxNodes, s \in 0..MaxState} :
            LET r == data_or_error(h, Cur, state)
            IN /\ (invalidity_reason_for_collection(h, Cur, state) = "None")
                      <=> is_valid_for_collection(h, Cur, state)
               /\ r.ok <=> (data(h, Cur, state) # None)
               /\ ~r.panics
               /\ r.ok => r.data = data(h, Cur, state)

\* under the threshold policy one taken index is valid and yields its item,
\* another is refused as reorganized although its address holds an active
\* node, and a node of the storage is closed
C40_Witness ==
    /\ rev = "v1" /\ policy = "OnThreshold"
    /\ \E i \in Taken : data_or_error(idx[i], Cur, state).ok
                         /\ data(idx[i], Cur, state) = i
    /\ \E j \in Taken : /\ data_or_error(idx[j], Cur, state).err = "ReorganizedCollection"
                         /\ ptr_is_valid_for(idx[j].ptr, Cur)
    /\ Len(nodes) > len

\* ----------------------------------- v1: the lazy unidirectional reclaimer
\* the first loop of reorganize_nodes: f is the forward position, b the next
\* position of the backward iterator, occupied_ptr the last moved node;
\* b - s.at is the index that enumerate gives to the found node; swap has the
\* text of the bidirectional swap (lazy_swap)
RECURSIVE uni_reorganize_from(_, _, _, _, _, _)
uni_reorganize_from(col, f, b, occupied_ptr, num_dropped, new_references) ==
    IF f > Len(col.nodes) THEN [col |-> col, new_references |-> new_references]
    ELSE IF f = occupied_ptr THEN [col |-> col, new_references |-> new_references]
    ELSE IF is_closed(col.nodes[f])
         THEN LET s == backward_scan(col, f, b)
              IN IF s.found
                 THEN LET recorded == IF b - s.at < num_dropped
                                      THEN Append(new_references, <<s.at, f>>)
                                      ELSE new_references
                          c1 == lazy_swap(col, f, s.at)
                          c2 == [c1 EXCEPT !.ends = update_reference_array(@, s.at, f)]
                      IN uni_reorganize_from(c2, f + 1, s.at - 1, s.at, num_dropped, recorded)
                 ELSE IF s.converged
                      THEN [col |-> col, new_references |-> new_references]
                      ELSE uni_reorganize_from(col, f + 1, 0, occupied_ptr,
                                               num_dropped, new_references)
         ELSE uni_reorganize_from(col, f + 1, b, occupied_ptr, num_dropped, new_references)

\* one reference after update_reference with every recorded pair, in order
RECURSIVE update_with_all(_, _, _)
update_with_all(ref, new_references, i) ==
    IF i > Len(new_references) THEN ref
    ELSE update_with_all(update_reference(ref, new_references[i][1], new_references[i][2]),
                         new_references, i + 1)

\* variant of uni_update_node that leaves the references of the node
uni_update_node_skipped(node, new_references) == node

\* the second loop of reorganize_nodes on one node
uni_update_node(node, new_references) ==
    [node EXCEPT !.prev = update_with_all(@, new_references, 1),
                 !.next = update_with_all(@, new_references, 1)]

\* memory_reclaim/lazy_unidirectional.rs, reorganize_nodes
uni_reorganize_nodes(col) ==
    LET old_len == Len(col.nodes)
        new_len == col.len
        num_dropped == old_len - new_len
        r == uni_reorganize_from(col, 1, old_len, old_len + 1, num_dropped, <<>>)
    IN [r.col EXCEPT !.nodes = [p \in 1..Len(r.col.nodes) |->
                                    uni_update_node(r.col.nodes[p], r.new_references)]]

\* memory_reclaim/lazy_unidirectional.rs, reclaim_closed_nodes
uni_reclaim_closed_nodes(col, st) ==
    IF Len(col.nodes) # 0
    THEN [col |-> truncate(uni_reorganize_nodes(col), col.len),
          state |-> memory_reclaimed(st), ran |-> TRUE]
    ELSE [col |-> col, state |-> st, ran |-> FALSE]

\* the orders of the nodes at the positions A: the sequences without
\* repetition over A
Perms(A) ==
    {s \in [1..Cardinality(A) -> A] : \A i, j \in 1..Cardinality(A) : s[i] = s[j] => i = j}

\* the node at position p of a storage whose active positions are linked in
\* the order s by their next references only; its data is p
uni_node(p, s) ==
    IF \E i \in 1..Len(s) : s[i] = p
    THEN LET i == CHOOSE i \in 1..Len(s) : s[i] = p
         IN [data |-> p, prev |-> None, next |-> IF i < Len(s) THEN s[i + 1] ELSE None]
    ELSE [data |-> None, prev |-> None, next |-> None]

\* a collection of the unidirectional variant (Prev = NodeRefNone, Next =
\* NodeRefSingle) as mutate leaves it: a storage of up to MaxNodes nodes, any of
\* them closed, the active ones linked in any order from the front
UniInit ==
    /\ rev = "v1"
    /\ \/ policy = "Never" /\ D = 0
       \/ policy = "OnThreshold" /\ D \in 0..MaxD
    /\ \E n \in 1..MaxNodes : \E A \in SUBSET (1..n) : \E s \in Perms(A) :
          /\ nodes = [p \in 1..n |-> uni_node(p, s)]
          /\ ends = <<IF Len(s) > 0 THEN s[1] ELSE None, None>>
          /\ len = Len(s)
          /\ order = s
    /\ state = 0
    /\ idx = [i \in 1..MaxItems |-> [ptr |-> None, state |-> 0]]
    /\ items = 0
    /\ last = [op |-> "new", ran |-> FALSE, moved |-> FALSE]
    /\ moves = 0
    /\ born = [i \in 1..MaxItems |-> 0]
    /\ references = RefsIdle
    /\ readers = [t \in 1..MaxThreads |-> IdleReader]

\* one pass of the unidirectional reclaimer
UniReclaim ==
    LET r == uni_reclaim_closed_nodes(Cur, state)
    IN /\ last.op = "new"
       /\ Install(r.col, r.state)
       /\ last' = [op |-> "uni_reclaim", ran |-> r.ran, moved |-> NodesMoved(Cur, r.col)]
       /\ UNCHANGED <<readers, references, rev, policy, D, idx, items, order, moves, born>>

UniSpec == UniInit /\ [][UniReclaim]_vars

\* C37: after a pass of the unidirectional reclaimer every reference (the
\* prev and next of every node and the anchors) that pointed at a node points
\* at the address the node has now, moved or not, and no reference points at
\* a vacated or truncated slot.
C37_UniPassRedirectsReferences ==
    [][last'.op = "uni_reclaim" =>
       LET PositionOf(d) ==
               IF \E p \in 1..Len(nodes') : nodes'[p].data = d /\ d # None
               THEN CHOOSE p \in 1..Len(nodes') : nodes'[p].data = d
               ELSE None
           Moved(ref) == IF ref = None THEN None ELSE PositionOf(nodes[ref].data)
       IN
        /\ \A p \in 1..Len(nodes) : is_active(nodes[p]) =>
              LET q == PositionOf(nodes[p].data)
              IN /\ q # None
                 /\ nodes'[q].next = Moved(nodes[p].next)
                 /\ nodes'[q].prev = Moved(nodes[p].prev)
        /\ \A e \in 1..2 : ends'[e] = Moved(ends[e])
        /\ \A q \in 1..Len(nodes') : \A ref \in {nodes'[q].next, nodes'[q].prev} :
              ref # None => ref \in 1..Len(nodes') /\ is_active(nodes'[ref])
        /\ \A e \in 1..2 :
              ends'[e] # None => ends'[e] \in 1..Len(nodes') /\ is_active(nodes'[ends'[e]])]_vars

\* the pass moved the front and the node before the moved last node: the
\* storage was [x, x, 3, 4] with 3 -> 4, it is [4, 3] with the front at 2
C37_Witness ==
    /\ last.op = "uni_reclaim" /\ last.moved
    /\ Len(nodes) = 2
    /\ nodes[1] = [data |-> 4, prev |-> None, next |-> None]
    /\ nodes[2] = [data |-> 3, prev |-> None, next |-> 1]
    /\ ends = <<2, None>>
====
